---- MODULE Spec2Model ----
(***************************************************************************)
(* Model of connector/bluetooth.py (class BLEManager): the dual BLE link   *)
(* to the left and right glass, as cooperative asyncio tasks.  One task is *)
(* the caller of the public API (scan_for_glasses, connect_to_glasses,     *)
(* disconnect, reconnect); every disconnected_callback that fires creates  *)
(* one _handle_disconnect task; the quality monitor is a further task.     *)
(* Tasks interleave only at awaits: `running` names the task that holds    *)
(* the event loop between two of its awaits.                               *)
(***************************************************************************)
EXTENDS Integers, Sequences, FiniteSets, TLC

(* ------------------------------ bounds -------------------------------- *)
\* BleakClient objects whose connect() succeeds, over the whole run
MaxClients == 2
\* public API calls made by the caller, over the whole run
MaxOps == 2
\* failures the environment causes, over the whole run: a connect, a
\* verification, a close, a start or a stop that fails, and a lost link
MaxFaults == 2
\* sends of _heartbeat_loop that fail, over the whole run
MaxSendErrors == 3
\* failures in a run that goes through all four strategies
StrategyFaults == 7
\* errors _monitor_connection_quality counts, over the whole run
MaxMonitorErrors == 2
\* lines of a host listing and devices of a discovery, in the runs of ScanSpec
MaxLines == 2
MaxDevices == 2
\* calls of scan_for_glasses in a run of ScanSpec
MaxScans == 1
\* the attempts of one _connect_glass call, the failures and the calls of
\* connect_to_glasses in a run of RetrySpec
RetryAttempts == 3
RetryFaults == 3
RetryCalls == 1
\* the attempts of one _connect_glass call and the failures in a run of
\* FairRetrySpec
FairAttempts == 2
FairFaults == 2
\* the same three for the runs of DeepSpec
DeepClients == 3
DeepOps == 3
DeepFaults == 2
\* the values of config.reconnect_attempts explored
ReconnectAttempts == {1, 2}

None == -1
NoAddr == "None"
Sides == {"left", "right"}
Other(side) == IF side = "left" THEN "right" ELSE "left"

(* ------------------------ names and addresses ------------------------- *)
\* A device name is a sequence of tokens; `pat in name` is token membership,
\* name.upper() maps each token to its upper-case form.
MacLeft == "CC:F7:20:72:88:DB"
MacRight == "DA:D8:C8:AF:52:58"

Has(name, tok) == \E i \in 1..Len(name) : name[i] = tok

UpperTok(tok) ==
  CASE tok = "_l_" -> "_L_"
    [] tok = "_r_" -> "_R_"
    [] tok = "Left" -> "LEFT"
    [] tok = "Right" -> "RIGHT"
    [] tok = "Even" -> "EVEN"
    [] OTHER -> tok

Upper(name) == [i \in 1..Len(name) |-> UpperTok(name[i])]

(* --------------------- scan_for_glasses: the data --------------------- *)
\* One line of the host's PnP / WMI listing is a name; a device is a name
\* with an address.
RECURSIVE PnpDevices(_, _)
PnpDevices(lines, cfg) ==
  IF lines = <<>> THEN <<>>
  ELSE LET line == Head(lines)
           rest == PnpDevices(Tail(lines), cfg)
           address ==
             IF Has(line, "CCF7207288DB") THEN MacLeft
             ELSE IF Has(line, "DAD8C8AF5258") THEN MacRight
             ELSE IF Has(Upper(line), "_L_") THEN cfg.left_address
             ELSE IF Has(Upper(line), "_R_") THEN cfg.right_address
             ELSE NoAddr
       IN IF line = <<>> \/ Head(line) \in {"Name", "----"} THEN rest
          ELSE IF (Has(line, "G1") \/ Has(line, "Even")) /\ address # NoAddr
               THEN <<[name |-> line, address |-> address]>> \o rest
               ELSE rest

RECURSIVE WmiDevices(_, _)
WmiDevices(lines, cfg) ==
  IF lines = <<>> THEN <<>>
  ELSE LET line == Head(lines)
           rest == WmiDevices(Tail(lines), cfg)
       IN IF ~(Has(line, "G1") \/ Has(line, "Even")) THEN rest
          ELSE IF Has(Upper(line), "_L_")
               THEN <<[name |-> line, address |-> cfg.left_address]>> \o rest
          ELSE IF Has(Upper(line), "_R_")
               THEN <<[name |-> line, address |-> cfg.right_address]>> \o rest
          ELSE rest

\* _get_windows_connected_g1_devices: the WMI listing is read only when the
\* PnP listing gave no device.
get_windows_connected_g1_devices(cfg, pnp, wmi) ==
  LET devices == PnpDevices(pnp, cfg)
  IN IF devices # <<>> THEN devices ELSE WmiDevices(wmi, cfg)

\* STEP 1 of scan_for_glasses, over s = [cfg, lf, rf, g1]
RECURSIVE ScanConnected(_, _)
ScanConnected(devs, s) ==
  IF devs = <<>> THEN s
  ELSE LET d == Head(devs)
           u == Upper(d.name)
       IN ScanConnected(Tail(devs),
            IF Has(u, "_L_") \/ Has(u, "LEFT")
            THEN [s EXCEPT !.cfg.left_address = d.address,
                           !.cfg.left_name = d.name, !.lf = TRUE]
            ELSE IF Has(u, "_R_") \/ Has(u, "RIGHT")
            THEN [s EXCEPT !.cfg.right_address = d.address,
                           !.cfg.right_name = d.name, !.rf = TRUE]
            ELSE s)

G1Patterns == {"_L_", "_R_", "G1", "Even", "LE-"}

IsG1Anything(d) == TRUE

\* if device.name: if any(pattern in device.name for pattern in [...])
IsG1(d) == d.name # <<>> /\ \E p \in G1Patterns : Has(d.name, p)

\* STEP 2: the devices BleakScanner.discover returned
RECURSIVE ScanDiscovered(_, _)
ScanDiscovered(devs, s) ==
  IF devs = <<>> THEN s
  ELSE LET d == Head(devs)
           isG1 == IsG1(d)
           s1 == IF isG1 THEN [s EXCEPT !.g1 = Append(@, d)] ELSE s
       IN ScanDiscovered(Tail(devs),
            IF ~isG1 THEN s
            ELSE IF ~s.lf /\ (Has(d.name, "_L_") \/ Has(d.name, "Left"))
            THEN [s1 EXCEPT !.cfg.left_address = d.address,
                            !.cfg.left_name = d.name, !.lf = TRUE]
            ELSE IF ~s.rf /\ (Has(d.name, "_R_") \/ Has(d.name, "Right"))
            THEN [s1 EXCEPT !.cfg.right_address = d.address,
                            !.cfg.right_name = d.name, !.rf = TRUE]
            ELSE s1)

\* the arbitrary assignment of the G1 devices not yet bound to a side
ScanAssign(s) ==
  IF ~(Len(s.g1) >= 1 /\ ~(s.lf /\ s.rf)) THEN s
  ELSE LET IsFree(d) == d.address \notin {s.cfg.left_address, s.cfg.right_address}
           avail == SelectSeq(s.g1, IsFree)
           sl == IF ~s.lf /\ avail # <<>>
                 THEN [s EXCEPT !.cfg.left_address = avail[1].address,
                                !.cfg.left_name = avail[1].name, !.lf = TRUE]
                 ELSE s
           avail2 == IF ~s.lf /\ avail # <<>> THEN Tail(avail) ELSE avail
       IN IF ~sl.rf /\ avail2 # <<>>
          THEN [sl EXCEPT !.cfg.right_address = avail2[1].address,
                          !.cfg.right_name = avail2[1].name, !.rf = TRUE]
          ELSE sl

(* ---------- the peripherals and listings the caller may meet ---------- *)
NameL == <<"Even", "G1", "_L_">>
NameR == <<"Even", "G1", "_R_">>
DevL == [name |-> NameL, address |-> "AL"]
DevR == [name |-> NameR, address |-> "AR"]
\* what the host lists and what a discovery may return, while the caller
\* connects: nothing, or both glasses advertising
CoreRadio == [listings |-> { [pnp |-> <<>>, wmi |-> <<>>] },
              discoveries |-> { <<>>, <<DevL, DevR>> }]
\* the peripherals a discovery may return besides: a second left glass, a
\* G1 without a side in its name, a foreign device, an unnamed device
DevL2 == [name |-> <<"G1", "_L_">>, address |-> "AL2"]
DevX == [name |-> <<"Even", "G1">>, address |-> "AX"]
DevO == [name |-> <<"Phone">>, address |-> "AO"]
DevU == [name |-> <<>>, address |-> "AU"]
Peripherals == {DevL, DevR, DevL2, DevX, DevO, DevU}
\* the lines a host listing may hold: the header, a glass by its name, a
\* glass with its hardware id
HostLines == {<<"Name">>, NameL, NameR, <<"Even", "G1", "_l_", "CCF7207288DB">>}
\* the sequences over S of at most n elements, without repetition
RECURSIVE SeqsUpTo(_, _)
SeqsUpTo(S, n) ==
  IF n = 0 THEN {<<>>}
  ELSE LET shorter == SeqsUpTo(S, n - 1)
       IN shorter \cup {Append(q, x) : q \in shorter, x \in S}
Distinct(q) == \A i, j \in DOMAIN q : q[i] = q[j] => i = j
\* what the host lists and what a discovery may return, for the runs of
\* ScanSpec: the WMI listing matters only when the PnP listing is empty
ScanRadio ==
  LET lines == SeqsUpTo(HostLines, MaxLines)
  IN [listings |-> {[pnp |-> l, wmi |-> <<>>] : l \in lines}
                   \cup {[pnp |-> <<>>, wmi |-> l] : l \in lines},
      discoveries |-> {q \in SeqsUpTo(Peripherals, MaxDevices) : Distinct(q)}]

InitConfigs ==
  { [left_address |-> "AL", right_address |-> "AR",
     left_name |-> NameL, right_name |-> NameR],
    [left_address |-> NoAddr, right_address |-> NoAddr,
     left_name |-> <<>>, right_name |-> <<>>] }

VARIABLES
  connection_state,   \* state_manager's ConnectionState
  config,             \* connector.config, in memory
  saved,              \* connector.config as last persisted by config.save()
  left_client,        \* connector.left_client: 0 (None) or a transport id
  right_client,       \* connector.right_client
  transports,         \* the BleakClient objects that have connected
  shutting_down,      \* BLEManager._shutting_down
  monitoring_task,    \* BLEManager._monitoring_task
  main,               \* the caller's task: the API call in progress
  handlers,           \* the _handle_disconnect tasks, by the transport that fired
  running,            \* the task between two of its awaits, or None
  nOps,               \* API calls made so far
  nFaults,            \* failures caused by the environment so far
  radio,              \* the listings and discoveries the environment can give
  limits,             \* the run's bounds on clients, API calls and failures
  heartbeat,          \* the _heartbeat_loop coroutine, when one runs
  monitor             \* what _monitor_connection_quality has recorded

vars == <<connection_state, config, saved, left_client, right_client, transports,
          shutting_down, monitoring_task, main, handlers, running, nOps, nFaults,
          radio, limits, heartbeat, monitor>>

(* ------------------------------ frames -------------------------------- *)
\* the frame of one _connect_glass call; `at` is the await it is suspended on
\* log lists, in a run that keeps logs, how each attempt of the call so far
\* ended: "ok", or the class of its failure:
\* "nf" (not found, the fallback failing too), "timeout", "already connected"
\* or "other" (the open raised something else), "unverified" (the connection
\* did not verify) or "notify" (start_notifications raised)
CGIdle == [at |-> "idle", side |-> "left", attempt |-> 0, cl |-> 0, result |-> FALSE,
           log |-> <<>>]

MainIdle ==
  [op |-> "idle", pc |-> "idle", strategy |-> 0, sctx |-> "top",
   left_connected |-> FALSE, right_connected |-> FALSE,
   old_left |-> NoAddr, old_right |-> NoAddr,
   left_found |-> FALSE, right_found |-> FALSE,
   result |-> FALSE, cg |-> CGIdle,
   hadBoth |-> FALSE, paired |-> FALSE, scanned |-> FALSE, s1ok |-> FALSE,
   started |-> "no",
   raised |-> {}, pre |-> <<>>, steps |-> <<>>, host |-> <<>>, devs |-> <<>>,
   s1log |-> [side \in Sides |-> <<>>],
   calls |-> [left |-> 0, right |-> 0, scan |-> 0, pairing |-> 0]]

\* seq & 0xFF keeps the low eight bits
Byte == 256
\* bytes([0x25, 0x06, 0x00, seq, 0x04, seq])
FrameUnpaired(seq) == <<37, 6, 0, seq, 4, (seq + 1) % Byte>>
Frame(seq) == <<37, 6, 0, seq, 4, seq>>

\* _heartbeat_loop not running; once running: seq and data are its locals,
\* error_count is what it has added to _error_count, last_error what it wrote
\* to _last_error, frames the last frame
\* each side was sent, count the number of frames each side was sent (mod 2),
\* good the number of rounds in which both sends succeeded (mod 256)
HeartbeatOff ==
  [pc |-> "off", seq |-> 0, data |-> <<>>, error_count |-> 0,
   last_error |-> "none", good |-> 0,
   frames |-> [side \in Sides |-> <<>>], count |-> [side \in Sides |-> 0]]

\* what the monitor task has added to _error_count, and the _last_error it
\* wrote last: the side it found disconnected, or "exception"
MonitorOff == [error_count |-> 0, last_error |-> "none"]

\* one handler task per transport
Slots == 1..(IF MaxClients > DeepClients THEN MaxClients ELSE DeepClients)

\* log lists, in a run that keeps logs, how the attempts of the task's
\* earlier _connect_glass calls ended
NoHandler ==
  [pc |-> "none", side |-> "left", attempt |-> 0, cg |-> CGIdle,
   bornShut |-> FALSE, unsolicited |-> FALSE, live |-> FALSE, log |-> <<>>]
HandlerDone == [NoHandler EXCEPT !.pc = "done"]

\* the environment fails once more (ok = FALSE) or not
Fault(ok) ==
  /\ ~ok => nFaults < limits.faults
  /\ nFaults' = IF ok THEN nFaults ELSE nFaults + 1

Client(side) == IF side = "left" THEN left_client ELSE right_client
Address(cfg, side) == IF side = "left" THEN cfg.left_address ELSE cfg.right_address
IsOpen(id) == id # 0 /\ transports[id].open
Persisted(cfg) == [left_address |-> cfg.left_address, right_address |-> cfg.right_address,
                   left_name |-> cfg.left_name, right_name |-> cfg.right_name]

\* the manager as constructed, over a loaded config
Constructed ==
  /\ connection_state = "Disconnected"
  /\ saved = Persisted(config)
  /\ left_client = 0
  /\ right_client = 0
  /\ transports = <<>>
  /\ shutting_down = FALSE
  /\ monitoring_task = "none"
  /\ main = MainIdle
  /\ handlers = [i \in Slots |-> NoHandler]
  /\ running = None
  /\ nOps = 0
  /\ nFaults = 0
  /\ heartbeat = HeartbeatOff
  /\ monitor = MonitorOff

WithAttempts(c, n) ==
  [left_address |-> c.left_address, right_address |-> c.right_address,
   left_name |-> c.left_name, right_name |-> c.right_name,
   reconnect_attempts |-> n]

Init ==
  /\ \E c \in InitConfigs, n \in ReconnectAttempts : config = WithAttempts(c, n)
  /\ Constructed
  /\ radio = CoreRadio
  /\ limits = [clients |-> MaxClients, ops |-> MaxOps, faults |-> MaxFaults,
               log |-> FALSE, count |-> FALSE]

\* longer runs of a manager whose config holds both addresses
DeepInit ==
  /\ \E c \in {c \in InitConfigs : c.left_address # NoAddr} :
       config = WithAttempts(c, 1)
  /\ Constructed
  /\ radio = CoreRadio
  /\ limits = [clients |-> DeepClients, ops |-> DeepOps, faults |-> DeepFaults,
               log |-> FALSE, count |-> FALSE]

(* ------------------- transports and their callbacks ------------------- *)
\* disconnected_callback=lambda c: asyncio.create_task(self._handle_disconnect(side))
\* bornShut, unsolicited and live record how the task came to be: under the
\* shutdown flag; by a lost link; by the lost link of a side's client while
\* the state is Connected and no API call is in progress (live lasts until
\* the next API call begins)
NewHandler(id, unsolicited) ==
  [NoHandler EXCEPT !.pc = "start", !.side = transports[id].side,
                    !.bornShut = shutting_down, !.unsolicited = unsolicited,
                    !.live = /\ unsolicited
                             /\ main.op = "idle"
                             /\ connection_state = "Connected"
                             /\ Client(transports[id].side) = id]

\* the handler tasks after task t's frame becomes f and the transports in
\* `fired` ran their callback
Handlers(t, f, fired, unsolicited) ==
  [i \in Slots |->
     IF i \in fired THEN NewHandler(i, unsolicited)
     ELSE IF i = t THEN f
     ELSE handlers[i]]

\* closing transport id: the callback fires when a registered one is open
Fired(id) == IF IsOpen(id) /\ transports[id].cb THEN {id} ELSE {}
\* a closed BleakClient fires no callback any more
Closed(id) == [transports EXCEPT ![id].open = FALSE, ![id].cb = FALSE]

\* an unsolicited loss of the link of an open transport
LinkLoss ==
  /\ running = None
  /\ Fault(FALSE)
  /\ \E id \in 1..Len(transports) :
       /\ transports[id].open
       /\ transports' = Closed(id)
       /\ handlers' = Handlers(0, NoHandler, Fired(id), TRUE)
  /\ UNCHANGED <<monitor, heartbeat, radio, limits, connection_state, config, saved, left_client, right_client,
                 shutting_down, monitoring_task, main, running, nOps>>

(* --------------------------- _connect_glass --------------------------- *)
\* Task 0 is the caller's task, task i > 0 the handler fired by transport i.
Tasks == {0} \cup Slots
CG(t) == IF t = 0 THEN main.cg ELSE handlers[t].cg
InCG(t) == IF t = 0 THEN main.pc \in {"cgL", "cgR"} ELSE handlers[t].pc = "cg"

CGCallAnyway(side, cfg) == [CGIdle EXCEPT !.at = "connect", !.side = side]

\* the call itself: no address configured returns False at once
CGCall(side, cfg) ==
  IF Address(cfg, side) = NoAddr
  THEN [CGIdle EXCEPT !.at = "ret", !.side = side, !.result = FALSE]
  ELSE [CGIdle EXCEPT !.at = "connect", !.side = side]

AttemptFailedAgain(f) == [f EXCEPT !.at = "connect", !.attempt = @ + 1, !.cl = 0]
AttemptFailedGiveUp(f) == [f EXCEPT !.at = "ret", !.result = FALSE, !.cl = 0]

\* the end of an attempt that did not return True: sleep reconnect_delay and
\* try again, or leave the loop and return False
AttemptFailed(f) ==
  IF f.attempt < config.reconnect_attempts - 1
  THEN [f EXCEPT !.at = "connect", !.attempt = @ + 1, !.cl = 0]
  ELSE [f EXCEPT !.at = "ret", !.result = FALSE, !.cl = 0]

\* in a run that counts calls, the frame m with one more call of `what`
\* (_connect_glass for a side, scan_for_glasses, verify_pairing) counted
Counted(m, what) ==
  IF limits.count THEN [m EXCEPT !.calls[what] = @ + 1] ELSE m

\* the frame of task t with the outcome of the current attempt noted
Logged(t, e) ==
  IF limits.log THEN [CG(t) EXCEPT !.log = Append(@, e)] ELSE CG(t)

\* task t's _connect_glass frame becomes f; the transports in `fired` ran
\* their callback
CGCommit(t, f, fired) ==
  /\ main' = IF t = 0 THEN [main EXCEPT !.cg = f] ELSE main
  /\ handlers' = Handlers(t, IF t = 0 THEN NoHandler ELSE [handlers[t] EXCEPT !.cg = f],
                          fired, FALSE)
  /\ running' = IF f.at = "ret" THEN t ELSE None

OpenedBoth(t, cb) ==
  LET f == CG(t)
      id == Len(transports) + 1
  IN /\ Len(transports) < limits.clients
     /\ \E verified \in BOOLEAN :
          /\ Fault(verified)
          /\ transports' = Append(transports, [side |-> f.side, open |-> TRUE,
                                               cb |-> cb, verified |-> verified])
          /\ left_client' = IF verified THEN id ELSE left_client
          /\ right_client' = IF verified THEN id ELSE right_client
          /\ CGCommit(t, [f EXCEPT !.at = IF verified THEN "notify" ELSE "close",
                                   !.cl = id], {})

\* client.connect() returned: is_connected holds, _verify_connection runs, and
\* a verified client is stored as the side's client
Opened(t, cb) ==
  LET f == CG(t)
      id == Len(transports) + 1
  IN /\ Len(transports) < limits.clients
     /\ \E verified \in BOOLEAN :
          /\ Fault(verified)
          /\ transports' = Append(transports, [side |-> f.side, open |-> TRUE,
                                               cb |-> cb, verified |-> verified])
          /\ left_client' = IF verified /\ f.side = "left" THEN id ELSE left_client
          /\ right_client' = IF verified /\ f.side = "right" THEN id ELSE right_client
          /\ CGCommit(t, [f EXCEPT !.at = IF verified THEN "notify" ELSE "close",
                                   !.cl = id], {})

ConnectErrors == {"not found", "timeout", "already connected", "other"}

\* await client.connect(timeout=connection_timeout), the client made with the callback
CGConnect(t) ==
  /\ running = None
  /\ InCG(t)
  /\ CG(t).at = "connect"
  /\ \/ Opened(t, TRUE)
     \/ /\ Fault(FALSE)
        /\ \E e \in ConnectErrors :
             CGCommit(t, IF e = "not found" THEN [CG(t) EXCEPT !.at = "fallback"]
                         ELSE AttemptFailed(Logged(t, e)), {})
        /\ UNCHANGED <<transports, left_client, right_client>>
  /\ UNCHANGED <<monitor, heartbeat, radio, limits, connection_state, config, saved, shutting_down, monitoring_task, nOps>>

\* the fallback: client = BleakClient(address); await client.connect(timeout=15.0)
CGFallback(t) ==
  /\ running = None
  /\ InCG(t)
  /\ CG(t).at = "fallback"
  /\ \/ Opened(t, FALSE)
     \/ /\ CGCommit(t, AttemptFailed(Logged(t, "nf")), {})
        /\ UNCHANGED <<transports, left_client, right_client, nFaults>>
  /\ UNCHANGED <<monitor, heartbeat, radio, limits, connection_state, config, saved, shutting_down, monitoring_task, nOps>>

\* await uart_service.start_notifications(client, side)
CGNotify(t) ==
  /\ running = None
  /\ InCG(t)
  /\ CG(t).at = "notify"
  /\ \E ok \in BOOLEAN :
       /\ Fault(ok)
       /\ CGCommit(t, IF ok THEN [Logged(t, "ok") EXCEPT !.at = "ret",
                                                         !.result = TRUE, !.cl = 0]
                      ELSE AttemptFailed(Logged(t, "notify")), {})
  /\ UNCHANGED <<monitor, heartbeat, radio, limits, connection_state, config, saved, left_client, right_client, transports,
                 shutting_down, monitoring_task, nOps>>

\* verification failed: await client.disconnect(); when it raises the
\* transport stays as it was
CGClose(t) ==
  /\ running = None
  /\ InCG(t)
  /\ CG(t).at = "close"
  /\ \E ok \in BOOLEAN :
       /\ Fault(ok)
       /\ transports' = IF ok THEN Closed(CG(t).cl) ELSE transports
       /\ CGCommit(t, AttemptFailed(Logged(t, "unverified")),
                   IF ok THEN Fired(CG(t).cl) ELSE {})
  /\ UNCHANGED <<monitor, heartbeat, radio, limits, connection_state, config, saved, left_client, right_client,
                 shutting_down, monitoring_task, nOps>>

(* ------------------------- _handle_disconnect ------------------------- *)
SuppressedNever(i) == FALSE

\* if self._shutting_down: return False
Suppressed(i) == shutting_down

\* the head of the attempt loop of handler i, entered with frame h
HandlerLoop(i, h) ==
  IF h.attempt >= config.reconnect_attempts \/ Suppressed(i)
  THEN /\ handlers' = [handlers EXCEPT ![i] =
                         [HandlerDone EXCEPT !.bornShut = h.bornShut,
                                             !.log = h.log]]
       /\ running' = None
  ELSE LET f == CGCall(h.side, config)
       IN /\ handlers' = [handlers EXCEPT ![i] =
                            [h EXCEPT !.pc = "cg", !.cg = f, !.live = FALSE]]
          /\ running' = IF f.at = "ret" THEN i ELSE None

\* the task's first run
HandleDisconnect(i) ==
  /\ running = None
  /\ handlers[i].pc = "start"
  /\ HandlerLoop(i, handlers[i])
  /\ UNCHANGED <<monitor, heartbeat, radio, limits, connection_state, config, saved, left_client, right_client, transports,
                 shutting_down, monitoring_task, main, nOps, nFaults>>

\* _connect_glass returned to the handler
HandlerConnected(i) ==
  /\ running = i
  /\ handlers[i].pc = "cg"
  /\ handlers[i].cg.at = "ret"
  /\ handlers' = [handlers EXCEPT ![i] =
                    IF handlers[i].cg.result
                    THEN [HandlerDone EXCEPT
                            !.bornShut = handlers[i].bornShut,
                            !.log = handlers[i].log \o handlers[i].cg.log]
                    ELSE [handlers[i] EXCEPT !.pc = "sleep", !.cg = CGIdle,
                                             !.log = @ \o handlers[i].cg.log]]
  /\ running' = None
  /\ UNCHANGED <<monitor, heartbeat, radio, limits, connection_state, config, saved, left_client, right_client, transports,
                 shutting_down, monitoring_task, main, nOps, nFaults>>

\* await asyncio.sleep(reconnect_delay) is over: the next iteration
HandlerRetry(i) ==
  /\ running = None
  /\ handlers[i].pc = "sleep"
  /\ HandlerLoop(i, [handlers[i] EXCEPT !.attempt = @ + 1])
  /\ UNCHANGED <<monitor, heartbeat, radio, limits, connection_state, config, saved, left_client, right_client, transports,
                 shutting_down, monitoring_task, main, nOps, nFaults>>

(* ------------------------- the caller's task -------------------------- *)
AnyOpen == \E id \in 1..Len(transports) : transports[id].open

\* the caller makes one call of the public API
Call(op) ==
  /\ running = None
  /\ main.op = "idle"
  /\ nOps < limits.ops
  /\ nOps' = nOps + 1
  /\ running' = 0
  /\ main' = [MainIdle EXCEPT
                !.op = op,
                !.pc = CASE op = "scan" -> "scan"
                         [] op = "connect" -> "connect"
                         [] OTHER -> "disconnect",
                !.pre = CASE op = "disconnect" ->
                               <<connection_state, left_client, right_client,
                                 config.left_address, config.right_address, AnyOpen>>
                          [] op = "scan" ->
                               <<config.left_address, config.right_address, saved>>
                          [] OTHER -> <<>>]
  /\ handlers' = [i \in Slots |-> [handlers[i] EXCEPT !.live = FALSE]]
  /\ UNCHANGED <<monitor, heartbeat, radio, limits, connection_state, config, saved, left_client, right_client, transports,
                 shutting_down, monitoring_task, nFaults>>

CallScan == Call("scan")
CallConnect == Call("connect")
CallDisconnect == Call("disconnect")
CallReconnect == Call("reconnect")

(* -------------------------- scan_for_glasses -------------------------- *)
\* up to the await of BleakScanner.discover: STEP 1 over the host's listing
ScanBegin ==
  /\ running = 0
  /\ main.pc = "scan"
  /\ connection_state' = "Scanning"
  /\ \E host \in radio.listings :
       LET devices == get_windows_connected_g1_devices(config, host.pnp, host.wmi)
           s == ScanConnected(devices, [cfg |-> config, lf |-> FALSE, rf |-> FALSE,
                                        g1 |-> <<>>])
           m == [Counted(main, "scan") EXCEPT !.scanned = TRUE,
                             !.host = IF main.sctx = "top" THEN devices ELSE <<>>]
       IN /\ config' = s.cfg
          /\ IF s.lf /\ s.rf
             THEN /\ saved' = Persisted(s.cfg)
                  /\ main' = [m EXCEPT !.pc = "scan_ret", !.result = TRUE]
                  /\ running' = 0
             ELSE /\ saved' = saved
                  /\ main' = [m EXCEPT !.pc = "discover",
                                       !.left_found = s.lf, !.right_found = s.rf]
                  /\ running' = None
  /\ UNCHANGED <<monitor, heartbeat, radio, limits, left_client, right_client, transports, shutting_down,
                 monitoring_task, handlers, nOps, nFaults>>

ScanOutcomeKept(found, state) == state

\* if not (left_found and right_found): set_connection_state(DISCONNECTED)
ScanOutcome(found, state) == IF found THEN state ELSE "Disconnected"

\* BleakScanner.discover returned (or raised): STEP 2, the arbitrary
\* assignment, and the outcome
ScanDiscover ==
  /\ running = None
  /\ main.pc = "discover"
  /\ running' = 0
  /\ \/ /\ Fault(FALSE)
        /\ connection_state' = "Disconnected"
        /\ main' = [main EXCEPT !.pc = "scan_ret", !.result = FALSE,
                                !.left_found = FALSE, !.right_found = FALSE]
        /\ UNCHANGED <<config, saved>>
     \/ /\ nFaults' = nFaults
        /\ \E devs \in radio.discoveries :
          LET s == ScanAssign(ScanDiscovered(devs,
                     [cfg |-> config, lf |-> main.left_found,
                      rf |-> main.right_found, g1 |-> <<>>]))
          IN /\ config' = s.cfg
             /\ saved' = IF s.lf /\ s.rf THEN Persisted(s.cfg) ELSE saved
             /\ connection_state' = ScanOutcome(s.lf /\ s.rf, connection_state)
             /\ main' = [main EXCEPT !.pc = "scan_ret", !.result = s.lf /\ s.rf,
                                     !.left_found = FALSE, !.right_found = FALSE,
                                     !.devs = IF main.sctx = "top" THEN devs ELSE <<>>]
  /\ UNCHANGED <<monitor, heartbeat, radio, limits, left_client, right_client, transports, shutting_down,
                 monitoring_task, handlers, nOps>>

\* scan_for_glasses returns to the caller of the API
ScanReturn ==
  /\ running = 0
  /\ main.pc = "scan_ret"
  /\ main.sctx = "top"
  /\ main' = MainIdle
  /\ running' = None
  /\ UNCHANGED <<monitor, heartbeat, radio, limits, connection_state, config, saved, left_client, right_client, transports,
                 shutting_down, monitoring_task, handlers, nOps, nFaults>>

(* ------------------------- connect_to_glasses ------------------------- *)
\* main, with frame m, calls _connect_glass(side) under strategy n
MainCall(m, n, side, cfg) ==
  LET f == CGCall(side, cfg)
  IN /\ main' = [Counted(m, side) EXCEPT !.pc = IF side = "left" THEN "cgL" ELSE "cgR",
                          !.strategy = n, !.cg = f, !.sctx = "top"]
     /\ running' = IF f.at = "ret" THEN 0 ELSE None

\* Strategy 0 (restore an address from a saved name), then Strategy 1
ConnectBegin ==
  /\ running = 0
  /\ main.pc = "connect"
  /\ connection_state' = "Connecting"
  /\ LET m == [main EXCEPT !.hadBoth = config.left_address # NoAddr
                                       /\ config.right_address # NoAddr]
         c0 == IF config.left_address = NoAddr /\ Has(config.left_name, "CCF7207288DB")
               THEN [config EXCEPT !.left_address = MacLeft] ELSE config
         c1 == IF c0.right_address = NoAddr /\ Has(c0.right_name, "DAD8C8AF5258")
               THEN [c0 EXCEPT !.right_address = MacRight] ELSE c0
     IN /\ config' = c1
        /\ IF c1.left_address # NoAddr /\ c1.right_address # NoAddr
           THEN MainCall(m, 1, "left", c1)
           ELSE /\ main' = [m EXCEPT !.pc = "s2"]
                /\ running' = 0
  /\ UNCHANGED <<monitor, heartbeat, radio, limits, saved, left_client, right_client, transports, shutting_down,
                 monitoring_task, handlers, nOps, nFaults>>

\* left_connected = await self._connect_glass('left') returned
MainAfterLeft ==
  /\ running = 0
  /\ main.pc = "cgL"
  /\ main.cg.at = "ret"
  /\ MainCall([main EXCEPT !.left_connected = main.cg.result,
                            !.s1log["left"] = IF main.strategy = 1 THEN main.cg.log
                                              ELSE @],
              main.strategy, "right", config)
  /\ UNCHANGED <<monitor, heartbeat, radio, limits, connection_state, config, saved, left_client, right_client, transports,
                 shutting_down, monitoring_task, handlers, nOps, nFaults>>

AfterStrategyAgain(n) ==
  CASE n = 1 -> "s2"
    [] n = 2 -> "s2"
    [] n = 3 -> "s4"
    [] OTHER -> "eval"

\* where connect_to_glasses goes on after the two calls of strategy n
AfterStrategy(n) ==
  CASE n = 1 -> "s2"
    [] n = 2 -> "s3"
    [] n = 3 -> "s4"
    [] OTHER -> "eval"

\* right_connected = await self._connect_glass('right') returned
MainAfterRight ==
  /\ running = 0
  /\ main.pc = "cgR"
  /\ main.cg.at = "ret"
  /\ main' = [main EXCEPT
                !.right_connected = main.cg.result,
                !.cg = CGIdle,
                !.strategy = 0,
                !.s1ok = main.strategy = 1 /\ main.left_connected /\ main.cg.result,
                !.s1log["right"] = IF main.strategy = 1 THEN main.cg.log ELSE @,
                !.pc = AfterStrategy(main.strategy)]
  /\ running' = 0
  /\ UNCHANGED <<monitor, heartbeat, radio, limits, connection_state, config, saved, left_client, right_client, transports,
                 shutting_down, monitoring_task, handlers, nOps, nFaults>>

NeedsPairingAlways(m) == TRUE

\* if not left_connected and not right_connected, of Strategy 2
NeedsPairing(m) == ~m.left_connected /\ ~m.right_connected

\* Strategy 2: both failed, await pairing_manager.verify_pairing()
Strategy2 ==
  /\ running = 0
  /\ main.pc = "s2"
  /\ IF NeedsPairing(main)
     THEN /\ main' = [Counted(main, "pairing") EXCEPT !.pc = "verify",
                                                      !.paired = TRUE]
          /\ running' = None
     ELSE /\ main' = [main EXCEPT !.pc = "s3"]
          /\ running' = 0
  /\ UNCHANGED <<monitor, heartbeat, radio, limits, connection_state, config, saved, left_client, right_client, transports,
                 shutting_down, monitoring_task, handlers, nOps, nFaults>>

PairingVerified ==
  /\ running = None
  /\ main.pc = "verify"
  /\ \E ok \in BOOLEAN :
       IF ok THEN MainCall(main, 2, "left", config)
       ELSE /\ main' = [main EXCEPT !.pc = "s3"]
            /\ running' = 0
  /\ UNCHANGED <<monitor, heartbeat, radio, limits, connection_state, config, saved, left_client, right_client, transports,
                 shutting_down, monitoring_task, handlers, nOps, nFaults>>

\* Strategy 3: clear the saved addresses and scan
Strategy3 ==
  /\ running = 0
  /\ main.pc = "s3"
  /\ running' = 0
  /\ IF ~main.left_connected /\ ~main.right_connected
     THEN /\ config' = [config EXCEPT !.left_address = NoAddr, !.right_address = NoAddr]
          /\ saved' = Persisted(config')
          /\ main' = [main EXCEPT !.pc = "scan", !.sctx = "s3",
                                  !.old_left = config.left_address,
                                  !.old_right = config.right_address]
     ELSE /\ main' = [main EXCEPT !.pc = "s4"]
          /\ UNCHANGED <<config, saved>>
  /\ UNCHANGED <<monitor, heartbeat, radio, limits, connection_state, left_client, right_client, transports,
                 shutting_down, monitoring_task, handlers, nOps, nFaults>>

\* the scan of Strategy 3 returned
Strategy3Scanned ==
  /\ running = 0
  /\ main.pc = "scan_ret"
  /\ main.sctx = "s3"
  /\ IF main.result
     THEN /\ MainCall([main EXCEPT !.old_left = NoAddr, !.old_right = NoAddr],
                      3, "left", config)
          /\ config' = config
     ELSE /\ config' = [config EXCEPT !.left_address = main.old_left,
                                      !.right_address = main.old_right]
          /\ main' = [main EXCEPT !.pc = "s4", !.sctx = "top",
                                  !.old_left = NoAddr, !.old_right = NoAddr]
          /\ running' = 0
  /\ UNCHANGED <<monitor, heartbeat, radio, limits, connection_state, saved, left_client, right_client, transports,
                 shutting_down, monitoring_task, handlers, nOps, nFaults>>

\* Strategy 4: exactly one side connected; clear, close that side, rescan
Strategy4 ==
  /\ running = 0
  /\ main.pc = "s4"
  /\ IF main.left_connected # main.right_connected
     THEN LET side == IF main.left_connected THEN "left" ELSE "right"
          IN /\ config' = [config EXCEPT !.left_address = NoAddr,
                                         !.right_address = NoAddr]
             /\ saved' = Persisted(config')
             /\ IF Client(side) # 0
                THEN /\ main' = [main EXCEPT !.pc = "s4close",
                                   !.cg = [CGIdle EXCEPT !.side = side,
                                                         !.cl = Client(side)]]
                     /\ running' = None
                ELSE /\ main' = [main EXCEPT !.pc = "scan", !.sctx = "s4"]
                     /\ running' = 0
     ELSE /\ main' = [main EXCEPT !.pc = "eval"]
          /\ running' = 0
          /\ UNCHANGED <<config, saved>>
  /\ UNCHANGED <<monitor, heartbeat, radio, limits, connection_state, left_client, right_client, transports,
                 shutting_down, monitoring_task, handlers, nOps, nFaults>>

\* await <side>_client.disconnect() of Strategy 4; an error leaves the try
Strategy4Closed ==
  /\ running = None
  /\ main.pc = "s4close"
  /\ running' = 0
  /\ \E ok \in BOOLEAN :
       /\ Fault(ok)
       /\ IF ok
          THEN /\ transports' = Closed(main.cg.cl)
               /\ handlers' = Handlers(0, NoHandler, Fired(main.cg.cl), FALSE)
               /\ left_client' = IF main.cg.side = "left" THEN 0 ELSE left_client
               /\ right_client' = IF main.cg.side = "right" THEN 0 ELSE right_client
               /\ main' = [main EXCEPT !.pc = "scan", !.sctx = "s4", !.cg = CGIdle]
               /\ connection_state' = connection_state
          ELSE /\ connection_state' = "Disconnected"
               /\ main' = [main EXCEPT !.pc = "c_ret", !.result = FALSE, !.cg = CGIdle]
               /\ UNCHANGED <<transports, handlers, left_client, right_client>>
  /\ UNCHANGED <<monitor, heartbeat, radio, limits, config, saved, shutting_down, monitoring_task, nOps>>

\* the scan of Strategy 4 returned
Strategy4Scanned ==
  /\ running = 0
  /\ main.pc = "scan_ret"
  /\ main.sctx = "s4"
  /\ IF main.result
     THEN MainCall(main, 4, "left", config)
     ELSE /\ main' = [main EXCEPT !.pc = "eval", !.sctx = "top"]
          /\ running' = 0
  /\ UNCHANGED <<monitor, heartbeat, radio, limits, connection_state, config, saved, left_client, right_client, transports,
                 shutting_down, monitoring_task, handlers, nOps, nFaults>>

EitherConnected(m) == m.left_connected \/ m.right_connected

\* if left_connected and right_connected
BothConnected(m) == m.left_connected /\ m.right_connected

\* the evaluation: both connected starts the command manager and the
\* monitor; otherwise the side that did connect is closed
Evaluate ==
  /\ running = 0
  /\ main.pc = "eval"
  /\ IF BothConnected(main)
     THEN /\ running' = 0
          /\ \E ok \in BOOLEAN :
               /\ Fault(ok)
               /\ connection_state' = IF ok THEN "Connected" ELSE "Disconnected"
               /\ monitoring_task' = IF ok THEN "running" ELSE monitoring_task
               /\ main' = [main EXCEPT !.pc = "c_ret", !.result = ok,
                                       !.started = IF ok THEN "yes" ELSE "raised"]
     ELSE LET side == IF main.left_connected THEN "left" ELSE "right"
          IN IF (main.left_connected \/ main.right_connected) /\ Client(side) # 0
             THEN /\ main' = [main EXCEPT !.pc = "cleanup",
                                !.cg = [CGIdle EXCEPT !.side = side,
                                                      !.cl = Client(side)]]
                  /\ running' = None
                  /\ UNCHANGED <<connection_state, monitoring_task, nFaults>>
             ELSE /\ connection_state' = "Disconnected"
                  /\ main' = [main EXCEPT !.pc = "c_ret", !.result = FALSE]
                  /\ running' = 0
                  /\ UNCHANGED <<monitoring_task, nFaults>>
  /\ UNCHANGED <<monitor, heartbeat, radio, limits, config, saved, left_client, right_client, transports,
                 shutting_down, handlers, nOps>>

\* await <side>_client.disconnect() of the cleanup, in try / except: pass
CleanupClosed ==
  /\ running = None
  /\ main.pc = "cleanup"
  /\ running' = 0
  /\ connection_state' = "Disconnected"
  /\ main' = [main EXCEPT !.pc = "c_ret", !.result = FALSE, !.cg = CGIdle]
  /\ \E ok \in BOOLEAN :
       /\ Fault(ok)
       /\ IF ok
          THEN /\ transports' = Closed(main.cg.cl)
               /\ handlers' = Handlers(0, NoHandler, Fired(main.cg.cl), FALSE)
               /\ left_client' = IF main.cg.side = "left" THEN 0 ELSE left_client
               /\ right_client' = IF main.cg.side = "right" THEN 0 ELSE right_client
          ELSE UNCHANGED <<transports, handlers, left_client, right_client>>
  /\ UNCHANGED <<monitor, heartbeat, radio, limits, config, saved, shutting_down, monitoring_task, nOps>>

\* connect_to_glasses returns (to the caller, or to reconnect and then to it)
ConnectReturn ==
  /\ running = 0
  /\ main.pc = "c_ret"
  /\ main' = MainIdle
  /\ running' = None
  /\ UNCHANGED <<monitor, heartbeat, radio, limits, connection_state, config, saved, left_client, right_client, transports,
                 shutting_down, monitoring_task, handlers, nOps, nFaults>>

(* ----------------------------- disconnect ----------------------------- *)
\* the for loop over the sides, from `sides` on: the next client that is set
\* and connected is closed (an await); with none left the state is set
DisconnectLoop(m, sides, lc, rc, tr) ==
  LET isOpen(sd) == LET c == IF sd = "left" THEN lc ELSE rc
                    IN c # 0 /\ tr[c].open
      todo == SelectSeq(sides, isOpen)
  IN IF todo # <<>>
     THEN /\ main' = [m EXCEPT !.pc = "d_close",
                        !.cg = [CGIdle EXCEPT !.side = todo[1],
                                  !.cl = IF todo[1] = "left" THEN lc ELSE rc]]
          /\ running' = None
          /\ connection_state' = connection_state
     ELSE /\ main' = [m EXCEPT !.pc = "d_ret", !.cg = CGIdle,
                                !.steps = Append(m.steps, "state")]
          /\ running' = 0
          /\ connection_state' = "Disconnected"

\* await self.connector.command_manager.stop(), then the loop
DisconnectStop(m) ==
  \E ok \in BOOLEAN :
    /\ Fault(ok)
    /\ IF ok THEN DisconnectLoop([m EXCEPT !.steps = Append(@, "stop")],
                                 <<"left", "right">>, left_client, right_client,
                                 transports)
       ELSE /\ main' = [m EXCEPT !.pc = "d_ret", !.raised = {"stop"}]
            /\ running' = 0
            /\ connection_state' = connection_state

MonitorToAwaitNever == FALSE

\* if self._monitoring_task:
MonitorToAwait == monitoring_task # "none"

\* the flag, and the cancellation of the monitoring task when there is one;
\* main.steps lists the steps this call of disconnect() has completed
DisconnectBegin ==
  /\ running = 0
  /\ main.pc = "disconnect"
  /\ shutting_down' = TRUE
  /\ IF MonitorToAwait
     THEN /\ main' = [main EXCEPT !.pc = "d_cancel", !.steps = <<"flag">>]
          /\ running' = None
          /\ UNCHANGED <<connection_state, nFaults>>
     ELSE DisconnectStop([main EXCEPT !.steps = <<"flag">>])
  /\ UNCHANGED <<monitor, heartbeat, radio, limits, config, saved, left_client, right_client, transports,
                 monitoring_task, handlers, nOps>>

\* await self._monitoring_task is over
DisconnectCancelled ==
  /\ running = None
  /\ main.pc = "d_cancel"
  /\ monitoring_task' = "none"
  /\ DisconnectStop([main EXCEPT !.steps = Append(@, "cancel")])
  /\ UNCHANGED <<monitor, heartbeat, radio, limits, config, saved, left_client, right_client, transports,
                 shutting_down, handlers, nOps>>

\* await client.disconnect() of the loop; an error leaves the try
DisconnectClosed ==
  /\ running = None
  /\ main.pc = "d_close"
  /\ \E ok \in BOOLEAN :
       /\ Fault(ok)
       /\ IF ok
          THEN LET lc == IF main.cg.side = "left" THEN 0 ELSE left_client
                   rc == IF main.cg.side = "right" THEN 0 ELSE right_client
               IN /\ transports' = Closed(main.cg.cl)
                  /\ handlers' = Handlers(0, NoHandler, Fired(main.cg.cl), FALSE)
                  /\ left_client' = lc
                  /\ right_client' = rc
                  /\ DisconnectLoop([main EXCEPT !.steps = Append(@, "close")],
                                    IF main.cg.side = "left" THEN <<"right">> ELSE <<>>,
                                    lc, rc, transports')
          ELSE /\ main' = [main EXCEPT !.pc = "d_ret", !.cg = CGIdle,
                                       !.raised = {main.cg.side}]
               /\ running' = 0
               /\ UNCHANGED <<connection_state, transports, handlers, left_client,
                              right_client>>
  /\ UNCHANGED <<monitor, heartbeat, radio, limits, config, saved, shutting_down, monitoring_task, nOps>>

\* disconnect() returns to the caller of the API
DisconnectReturn ==
  /\ running = 0
  /\ main.pc = "d_ret"
  /\ main.op = "disconnect"
  /\ main' = MainIdle
  /\ running' = None
  /\ UNCHANGED <<monitor, heartbeat, radio, limits, connection_state, config, saved, left_client, right_client, transports,
                 shutting_down, monitoring_task, handlers, nOps, nFaults>>

(* ----------------------------- reconnect ------------------------------ *)
ReconnectGiveUp ==
  /\ running = 0
  /\ main.pc = "d_ret"
  /\ main.op = "reconnect"
  /\ main' = MainIdle
  /\ running' = None
  /\ UNCHANGED <<monitor, heartbeat, radio, limits, connection_state, config, saved, left_client, right_client, transports,
                 shutting_down, monitoring_task, handlers, nOps, nFaults>>

\* await self.disconnect() returned: return await self.connect_to_glasses()
ReconnectConnect ==
  /\ running = 0
  /\ main.pc = "d_ret"
  /\ main.op = "reconnect"
  /\ main' = [MainIdle EXCEPT !.op = "reconnect", !.pc = "connect"]
  /\ running' = 0
  /\ UNCHANGED <<monitor, heartbeat, radio, limits, connection_state, config, saved, left_client, right_client, transports,
                 shutting_down, monitoring_task, handlers, nOps, nFaults>>

(* -------------------- _monitor_connection_quality --------------------- *)
\* the head of the while loop, at the task's first run and after each sleep
MonitorLoop ==
  /\ running = None
  /\ monitoring_task = "running"
  /\ shutting_down
  /\ monitoring_task' = "finished"
  /\ UNCHANGED <<monitor, heartbeat, radio, limits, connection_state, config, saved, left_client, right_client, transports,
                 shutting_down, main, handlers, running, nOps, nFaults>>

\* the sides, in the order of the for loop, whose client is set and not
\* connected
Dropped ==
  SelectSeq(<<"left", "right">>,
            LAMBDA side : Client(side) # 0 /\ ~transports[Client(side)].open)

MonitorPollReconnects ==
  /\ running = None
  /\ monitoring_task = "running"
  /\ ~shutting_down
  /\ Dropped # <<>>
  /\ monitor.error_count + Len(Dropped) <= MaxMonitorErrors
  /\ monitor' = [error_count |-> monitor.error_count + Len(Dropped),
                 last_error |-> Dropped[Len(Dropped)]]
  /\ connection_state' = "Disconnected"
  /\ UNCHANGED <<heartbeat, radio, limits, config, saved, left_client, right_client, transports,
                 shutting_down, monitoring_task, main, handlers, running, nOps, nFaults>>

\* one pass of the loop body, from the sleep that ended to the next sleep:
\* each side found with a client that is not connected adds one to
\* _error_count and writes _last_error; an exception in the pass does the same
MonitorPoll ==
  /\ running = None
  /\ monitoring_task = "running"
  /\ ~shutting_down
  /\ \/ /\ monitor.error_count + Len(Dropped) <= MaxMonitorErrors
        /\ monitor' = IF Dropped = <<>> THEN monitor
                      ELSE [error_count |-> monitor.error_count + Len(Dropped),
                            last_error |-> Dropped[Len(Dropped)]]
        /\ nFaults' = nFaults
     \/ /\ monitor.error_count < MaxMonitorErrors
        /\ Fault(FALSE)
        /\ monitor' = [error_count |-> monitor.error_count + 1,
                       last_error |-> "exception"]
  /\ UNCHANGED <<heartbeat, radio, limits, connection_state, config, saved, left_client, right_client, transports,
                 shutting_down, monitoring_task, main, handlers, running, nOps>>

(* -------------------------- the specification ------------------------- *)
Next ==
  \/ CallScan \/ CallConnect \/ CallDisconnect \/ CallReconnect
  \/ ScanBegin \/ ScanDiscover \/ ScanReturn
  \/ ConnectBegin \/ MainAfterLeft \/ MainAfterRight
  \/ Strategy2 \/ PairingVerified
  \/ Strategy3 \/ Strategy3Scanned
  \/ Strategy4 \/ Strategy4Closed \/ Strategy4Scanned
  \/ Evaluate \/ CleanupClosed \/ ConnectReturn
  \/ DisconnectBegin \/ DisconnectCancelled \/ DisconnectClosed \/ DisconnectReturn
  \/ ReconnectConnect
  \/ MonitorLoop
  \/ LinkLoss
  \/ \E t \in Tasks : CGConnect(t) \/ CGFallback(t) \/ CGNotify(t) \/ CGClose(t)
  \/ \E i \in Slots :
       HandleDisconnect(i) \/ HandlerConnected(i) \/ HandlerRetry(i)

Spec == Init /\ [][Next]_vars
DeepSpec == DeepInit /\ [][Next]_vars

\* connect_to_glasses alone, with up to RetryAttempts attempts a call and a
\* log of the attempts
RetryInit ==
  /\ \E c \in {c \in InitConfigs : c.left_address # NoAddr},
        n \in {1, RetryAttempts} : config = WithAttempts(c, n)
  /\ Constructed
  /\ radio = CoreRadio
  /\ limits = [clients |-> MaxClients, ops |-> RetryCalls, faults |-> RetryFaults,
               log |-> TRUE, count |-> FALSE]

RetryNext ==
  \/ CallConnect
  \/ ScanBegin \/ ScanDiscover
  \/ ConnectBegin \/ MainAfterLeft \/ MainAfterRight
  \/ Strategy2 \/ PairingVerified
  \/ Strategy3 \/ Strategy3Scanned
  \/ Strategy4 \/ Strategy4Closed \/ Strategy4Scanned
  \/ Evaluate \/ CleanupClosed \/ ConnectReturn
  \/ LinkLoss
  \/ \E t \in Tasks : CGConnect(t) \/ CGFallback(t) \/ CGNotify(t) \/ CGClose(t)
  \/ \E i \in Slots :
       HandleDisconnect(i) \/ HandlerConnected(i) \/ HandlerRetry(i)

RetrySpec == RetryInit /\ [][RetryNext]_vars

\* every step but the caller's call and the loss of a link: what the event
\* loop does by itself once an await can complete
RetrySteps ==
  \/ ScanBegin \/ ScanDiscover
  \/ ConnectBegin \/ MainAfterLeft \/ MainAfterRight
  \/ Strategy2 \/ PairingVerified
  \/ Strategy3 \/ Strategy3Scanned
  \/ Strategy4 \/ Strategy4Closed \/ Strategy4Scanned
  \/ Evaluate \/ CleanupClosed \/ ConnectReturn
  \/ \E t \in Tasks : CGConnect(t) \/ CGFallback(t) \/ CGNotify(t) \/ CGClose(t)
  \/ \E i \in Slots :
       HandleDisconnect(i) \/ HandlerConnected(i) \/ HandlerRetry(i)

\* the same runs when the event loop keeps running: an await that can
\* complete does complete (every open has a timeout) and a runnable task runs
FairRetryInit ==
  /\ \E c \in {c \in InitConfigs : c.left_address # NoAddr},
        n \in {1, FairAttempts} : config = WithAttempts(c, n)
  /\ Constructed
  /\ radio = CoreRadio
  /\ limits = [clients |-> MaxClients, ops |-> RetryCalls, faults |-> FairFaults,
               log |-> TRUE, count |-> FALSE]

FairRetrySpec == FairRetryInit /\ [][RetryNext]_vars /\ WF_vars(RetrySteps)

\* connect_to_glasses and the tasks its transports start, with FairAttempts
\* attempts a call, enough failures for a task to use them up, and logs
HandlerInit ==
  /\ \E c \in {c \in InitConfigs : c.left_address # NoAddr},
        n \in {1, FairAttempts} : config = WithAttempts(c, n)
  /\ Constructed
  /\ radio = CoreRadio
  /\ limits = [clients |-> MaxClients, ops |-> RetryCalls, faults |-> RetryFaults,
               log |-> TRUE, count |-> FALSE]

HandlerSpec == HandlerInit /\ [][RetryNext]_vars

\* connect_to_glasses with one attempt a call and enough failures for all
\* four strategies to run in one call; the branches of the call depend on
\* the results of its own calls only, so the tasks that the transports'
\* callbacks start are left waiting here (FairRetrySpec runs them)
StrategyInit ==
  /\ \E c \in {c \in InitConfigs : c.left_address # NoAddr} :
       config = WithAttempts(c, 1)
  /\ Constructed
  /\ radio = CoreRadio
  /\ limits = [clients |-> MaxClients, ops |-> RetryCalls,
               faults |-> StrategyFaults, log |-> FALSE,
               count |-> TRUE]

\* the steps of the caller's task: connect_to_glasses and the calls it makes
StrategyNext ==
  \/ CallConnect
  \/ ScanBegin \/ ScanDiscover
  \/ ConnectBegin \/ MainAfterLeft \/ MainAfterRight
  \/ Strategy2 \/ PairingVerified
  \/ Strategy3 \/ Strategy3Scanned
  \/ Strategy4 \/ Strategy4Closed \/ Strategy4Scanned
  \/ Evaluate \/ CleanupClosed \/ ConnectReturn
  \/ CGConnect(0) \/ CGFallback(0) \/ CGNotify(0) \/ CGClose(0)

StrategySpec == StrategyInit /\ [][StrategyNext]_vars /\ WF_vars(StrategyNext)

\* from the state a successful connect_to_glasses leaves (both transports
\* open and verified, the monitor running): links get lost, the transports'
\* tasks reconnect, and the caller calls disconnect()
ShutdownInit ==
  /\ \E c \in {c \in InitConfigs : c.left_address # NoAddr},
        n \in ReconnectAttempts : config = WithAttempts(c, n)
  /\ saved = Persisted(config)
  /\ transports = <<[side |-> "left", open |-> TRUE, cb |-> TRUE, verified |-> TRUE],
                    [side |-> "right", open |-> TRUE, cb |-> TRUE, verified |-> TRUE]>>
  /\ left_client = 1
  /\ right_client = 2
  /\ connection_state = "Connected"
  /\ monitoring_task = "running"
  /\ shutting_down = FALSE
  /\ main = MainIdle
  /\ handlers = [i \in Slots |-> NoHandler]
  /\ running = None
  /\ nOps = 1
  /\ nFaults = 0
  /\ radio = CoreRadio
  /\ limits = [clients |-> DeepClients, ops |-> MaxOps, faults |-> MaxFaults,
               log |-> FALSE, count |-> FALSE]
  /\ heartbeat = HeartbeatOff
  /\ monitor = MonitorOff

ShutdownNext ==
  \/ CallDisconnect
  \/ DisconnectBegin \/ DisconnectCancelled \/ DisconnectClosed \/ DisconnectReturn
  \/ MonitorLoop
  \/ LinkLoss
  \/ \E t \in Tasks : CGConnect(t) \/ CGFallback(t) \/ CGNotify(t) \/ CGClose(t)
  \/ \E i \in Slots :
       HandleDisconnect(i) \/ HandlerConnected(i) \/ HandlerRetry(i)

ShutdownSpec == ShutdownInit /\ [][ShutdownNext]_vars

\* connect_to_glasses followed by the polls of the monitor task it starts
MonitorSpec == FairRetryInit /\ [][RetryNext \/ MonitorPoll]_vars

\* scan_for_glasses alone, over all the listings and discoveries of ScanRadio
ScanConfigs ==
  InitConfigs \cup { [left_address |-> "AL", right_address |-> NoAddr,
                      left_name |-> NameL, right_name |-> <<>>] }

ScanInit ==
  /\ \E c \in ScanConfigs : config = WithAttempts(c, 1)
  /\ Constructed
  /\ radio = ScanRadio
  /\ limits = [clients |-> MaxClients, ops |-> MaxScans, faults |-> MaxFaults,
               log |-> FALSE, count |-> FALSE]

ScanNext == CallScan \/ ScanBegin \/ ScanDiscover \/ ScanReturn

ScanSpec == ScanInit /\ [][ScanNext]_vars

(* --------------------------- _heartbeat_loop -------------------------- *)
\* a manager on which _heartbeat_loop has been started: each side's client
\* is set or not; with both set connect_to_glasses has returned true
HeartbeatInit ==
  /\ \E c \in {c \in InitConfigs : c.left_address # NoAddr} :
       config = WithAttempts(c, 1)
  /\ saved = Persisted(config)
  /\ \E l, r \in BOOLEAN :
       LET client(side) == [side |-> side, open |-> TRUE, cb |-> TRUE,
                            verified |-> TRUE]
       IN /\ transports = (IF l THEN <<client("left")>> ELSE <<>>)
                          \o (IF r THEN <<client("right")>> ELSE <<>>)
          /\ left_client = IF l THEN 1 ELSE 0
          /\ right_client = IF r THEN Len(transports) ELSE 0
          /\ connection_state = IF l /\ r THEN "Connected" ELSE "Disconnected"
          /\ monitoring_task = IF l /\ r THEN "running" ELSE "none"
          /\ nOps = IF l \/ r THEN 1 ELSE 0
  /\ shutting_down = FALSE
  /\ main = MainIdle
  /\ handlers = [i \in Slots |-> NoHandler]
  /\ running = None
  /\ nFaults = 0
  /\ radio = CoreRadio
  /\ limits = [clients |-> MaxClients, ops |-> MaxOps, faults |-> MaxFaults,
               log |-> FALSE, count |-> FALSE]
  /\ heartbeat = [HeartbeatOff EXCEPT !.pc = "top"]
  /\ monitor = MonitorOff

HeartbeatIdle ==
  UNCHANGED <<monitor, connection_state, config, saved, left_client, right_client, transports,
              shutting_down, monitoring_task, main, handlers, running, nOps, nFaults,
              radio, limits>>

\* the head of while True: with both clients set, seq advances and the frame
\* is built; otherwise the body is skipped and the loop goes round at once
HeartbeatRound ==
  /\ heartbeat.pc \in {"top", "spin"}
  /\ heartbeat' =
       IF left_client # 0 /\ right_client # 0
       THEN LET seq == (heartbeat.seq + 1) % Byte
            IN [heartbeat EXCEPT !.pc = "sendL", !.seq = seq, !.data = Frame(seq)]
       ELSE [heartbeat EXCEPT !.pc = "spin"]
  /\ HeartbeatIdle

HeartbeatFailedStops ==
  /\ heartbeat.error_count < MaxSendErrors
  /\ heartbeat' = [heartbeat EXCEPT !.pc = "off", !.error_count = @ + 1,
                                    !.last_error = "Heartbeat failed"]

\* except Exception: the error is counted and recorded, then sleep(2)
HeartbeatFailed ==
  /\ heartbeat.error_count < MaxSendErrors
  /\ heartbeat' = [heartbeat EXCEPT !.pc = "error_sleep", !.error_count = @ + 1,
                                    !.last_error = "Heartbeat failed"]

\* the frame reaches the side
HeartbeatSent(side, pc) ==
  [heartbeat EXCEPT !.pc = pc, !.frames[side] = heartbeat.data,
                    !.count[side] = 1 - @]

\* await self.send_command(self.connector.left_client, data)
HeartbeatSendLeft ==
  /\ heartbeat.pc = "sendL"
  /\ \/ heartbeat' = HeartbeatSent("left", "pause")
     \/ HeartbeatFailed
  /\ HeartbeatIdle

\* await asyncio.sleep(0.2)
HeartbeatPause ==
  /\ heartbeat.pc = "pause"
  /\ heartbeat' = [heartbeat EXCEPT !.pc = "sendR"]
  /\ HeartbeatIdle

\* await self.send_command(self.connector.right_client, data)
HeartbeatSendRight ==
  /\ heartbeat.pc = "sendR"
  /\ \/ heartbeat' = [HeartbeatSent("right", "sleep") EXCEPT
                        !.good = (@ + 1) % Byte]
     \/ HeartbeatFailed
  /\ HeartbeatIdle

\* await asyncio.sleep(heartbeat_interval), or the sleep(2) after an error
HeartbeatSleep ==
  /\ heartbeat.pc \in {"sleep", "error_sleep"}
  /\ heartbeat' = [heartbeat EXCEPT !.pc = "top"]
  /\ HeartbeatIdle

HeartbeatNext ==
  \/ HeartbeatRound
  \/ HeartbeatSendLeft \/ HeartbeatPause \/ HeartbeatSendRight
  \/ HeartbeatSleep

HeartbeatSpec == HeartbeatInit /\ [][HeartbeatNext]_vars

\* the event loop resumes the coroutine when its await completes
FairHeartbeatSpec == HeartbeatSpec /\ WF_vars(HeartbeatNext)

(* ------------------------------ properties ----------------------------- *)
ConnectReturned == main.pc = "c_ret"
DisconnectReturned == main.pc = "d_ret"
Verified(id) == id # 0 /\ transports[id].verified
SideOpen(side) == IsOpen(Client(side))

C2_NeverOneSided ==
  ConnectReturned
    => \/ /\ \A side \in Sides : SideOpen(side)
          /\ connection_state = "Connected"
       \/ /\ \A side \in Sides : ~SideOpen(side)
          /\ connection_state = "Disconnected"

\* C3: in every state where the global state is Connected, both handles are
\* set and refer to open, verified transports.
C3_ConnectedBothOpen ==
  connection_state = "Connected"
    => \A side \in Sides : SideOpen(side) /\ Verified(Client(side))

\* C4: a side's handle is set only while it refers to an open, verified
\* transport.
C4_HandleOnlyWhileOpen ==
  \A side \in Sides :
    Client(side) # 0 => SideOpen(side) /\ Verified(Client(side))

\* C5 as written: every change of the global state is Disconnected to
\* Scanning, Scanning to Connecting, Connecting to Connected, or any state to
\* Disconnected.
C5_TransitionsAsWritten ==
  [][connection_state' # connection_state
       => \/ connection_state' = "Disconnected"
          \/ <<connection_state, connection_state'>> \in
               { <<"Disconnected", "Scanning">>, <<"Scanning", "Connecting">>,
                 <<"Connecting", "Connected">> }]_vars

\* C5 amended: every change of the global state is a change to Disconnected,
\* a change to Scanning made by the first step of scan_for_glasses, a change
\* to Connecting made by the first step of connect_to_glasses, or a change
\* from Connecting or Scanning to Connected made by the evaluation of
\* connect_to_glasses; Disconnected never changes directly to Connected.
C5_Transitions ==
  [][connection_state' # connection_state
       => \/ connection_state' = "Disconnected"
          \/ connection_state' = "Scanning" /\ main.pc = "scan"
          \/ connection_state' = "Connecting" /\ main.pc = "connect"
          \/ /\ connection_state' = "Connected"
             /\ connection_state \in {"Connecting", "Scanning"}
             /\ main.pc = "eval"]_vars

\* C5 witness: connect_to_glasses has returned Connected after a scan of its
\* own, so the state went from Connecting to Scanning and from there to
\* Connected.
C5_Witness ==
  ConnectReturned /\ main.scanned /\ connection_state = "Connected"

\* C6: a _handle_disconnect task whose callback fired while _shutting_down
\* was true never calls _connect_glass.
C6_ShutdownSuppressesReconnect ==
  \A i \in Slots : handlers[i].bornShut => handlers[i].pc \in {"start", "done"}

\* C6 witness: a task whose callback fired under the flag has run and
\* returned.
C6_Witness ==
  \E i \in Slots : handlers[i].bornShut /\ handlers[i].pc = "done"

\* C7: the task started by the unsolicited loss of a side's transport while
\* the state is Connected and no call is in progress makes at least one
\* _connect_glass attempt when it runs, whatever calls came before.
C7_DropStartsReconnect ==
  [][\A i \in Slots :
       (handlers[i].pc = "start" /\ handlers[i].live /\ handlers'[i].pc # "start")
         => handlers'[i].pc = "cg"]_vars

\* C8: when connect_to_glasses returns false, the state is Disconnected and
\* neither side holds an open transport.
C8_FalseMeansClean ==
  (ConnectReturned /\ ~main.result)
    => /\ connection_state = "Disconnected"
       /\ \A side \in Sides : ~SideOpen(side)

\* C9: disconnect() called while the state is Disconnected and no transport
\* is open returns with the state, both handles and both stored addresses as
\* they were at the call.
C9_IdleDisconnectChangesNothing ==
  (DisconnectReturned /\ main.op = "disconnect"
     /\ main.pre[1] = "Disconnected" /\ ~main.pre[6])
    => main.pre = <<connection_state, left_client, right_client,
                    config.left_address, config.right_address, FALSE>>

\* C10: when the close of one side raises during disconnect(), the other
\* side's open transport is closed all the same and the state ends
\* Disconnected.
C10_CloseErrorIsolated ==
  (DisconnectReturned /\ main.raised \cap Sides # {})
    => /\ connection_state = "Disconnected"
       /\ \A side \in Sides \ main.raised : ~SideOpen(side)

\* the place of a step of disconnect() in the order of its source lines
StepRank(step) ==
  CASE step = "flag" -> 1 [] step = "cancel" -> 2 [] step = "stop" -> 3
    [] step = "close" -> 4 [] step = "state" -> 5

\* C11: disconnect() sets the shutdown flag first, then cancels the monitor
\* task and waits for it, then stops the command layer, then closes each
\* open side, and only after all of these sets the state to Disconnected.
C11_DisconnectOrder ==
  LET st == main.steps
      done == {st[i] : i \in DOMAIN st}
  IN /\ \A i, j \in DOMAIN st :
          i < j => /\ StepRank(st[i]) <= StepRank(st[j])
                   /\ StepRank(st[i]) = StepRank(st[j]) => st[i] = "close"
     /\ st # <<>> => st[1] = "flag" /\ shutting_down
     /\ main.pc \in {"d_cancel", "d_close", "d_ret"} => st # <<>>
     /\ main.pc = "d_cancel" => st = <<"flag">>
     /\ "stop" \in done => monitoring_task = "none"
     /\ main.pc = "d_close" => "stop" \in done
     /\ "state" \in done => "stop" \in done /\ connection_state = "Disconnected"
     /\ (main.op = "disconnect" /\ st # <<>> /\ "state" \notin done)
          => connection_state = main.pre[1]

\* C11 witness: a disconnect() that awaited the monitor task, stopped the
\* command layer, closed both sides and set the state has returned.
C11_Witness ==
  /\ DisconnectReturned
  /\ main.steps = <<"flag", "cancel", "stop", "close", "close", "state">>

\* C12: between rounds of _heartbeat_loop the sequence counter equals the
\* number of rounds in which both sends succeeded, modulo 256, whatever
\* failed rounds came in between.
C12_CounterCountsGoodRounds ==
  heartbeat.pc \in {"top", "sleep", "error_sleep"}
    => heartbeat.seq = heartbeat.good

\* C13: every frame sent to a side carries the sequence value of the frame
\* sent to that side before it, plus 1 modulo 256.
C13_FramesConsecutive ==
  [][\A side \in Sides :
       (heartbeat'.count[side] # heartbeat.count[side]
          /\ heartbeat.frames[side] # <<>>)
         => heartbeat'.frames[side][4] = (heartbeat.frames[side][4] + 1) % Byte]_vars

ScanReturned == main.pc = "scan_ret" /\ main.op = "scan"
NameOf(cfg, side) == IF side = "left" THEN cfg.left_name ELSE cfg.right_name
\* the name carries a side pattern of the host step or of the active scan
SideNamed(name) ==
  \E p \in {"_L_", "LEFT", "_R_", "RIGHT"} : Has(Upper(name), p)
\* the name carries one of the product patterns of the active scan
ProductNamed(name) == name # <<>> /\ \E p \in G1Patterns : Has(name, p)
\* the side's stored address or name changes in this step
Assigned(side) ==
  \/ Address(config', side) # Address(config, side)
  \/ NameOf(config', side) # NameOf(config, side)

\* C14: the peripheral stored as the right side never has "_L_" in its name.
C14_LeftNameNeverRight == ~Has(config.right_name, "_L_")

\* C15 as written: a peripheral that scan_for_glasses assigns to a side has
\* a name, and the name matches the left or the right name pattern.
C15_OnlySideNamesAssigned ==
  [][\A side \in Sides :
       Assigned(side) => /\ NameOf(config', side) # <<>>
                         /\ SideNamed(NameOf(config', side))]_vars

\* C15 amended: a peripheral that scan_for_glasses assigns to a side has a
\* name, and the name matches a side pattern or one of the product patterns
\* "_L_", "_R_", "G1", "Even", "LE-": an unnamed peripheral and one matching
\* no product pattern are never assigned.
C15_OnlyProductNamesAssigned ==
  [][\A side \in Sides :
       Assigned(side) => /\ NameOf(config', side) # <<>>
                         /\ \/ SideNamed(NameOf(config', side))
                            \/ ProductNamed(NameOf(config', side))]_vars

\* C15 witness: a discovery that held a foreign or an unnamed peripheral
\* ended with the G1 that names no side assigned as the left side.
C15_Witness ==
  /\ ScanReturned
  /\ \E i \in DOMAIN main.devs : main.devs[i] \in {DevO, DevU}
  /\ config.left_name = DevX.name /\ config.left_address = DevX.address

\* C16: scan_for_glasses returns true only with both stored addresses
\* non-empty and persisted, and when it returns false the persisted copy is
\* as it was at the call.
C16_TrueMeansResolvedAndSaved ==
  ScanReturned
    => IF main.result
       THEN /\ config.left_address # NoAddr /\ config.right_address # NoAddr
            /\ saved = Persisted(config)
       ELSE saved = main.pre[3]

\* C17: when the host lists no device and the active scan finds no
\* peripheral matching a product pattern, scan_for_glasses returns false,
\* the state is Disconnected and both stored addresses are as at the call.
C17_NothingFound ==
  (ScanReturned /\ main.host = <<>>
     /\ \A i \in DOMAIN main.devs : ~ProductNamed(main.devs[i].name))
    => /\ ~main.result
       /\ connection_state = "Disconnected"
       /\ config.left_address = main.pre[1]
       /\ config.right_address = main.pre[2]

\* C17 witness: such a scan has returned, its discovery having held
\* peripherals that match no product pattern.
C17_Witness ==
  /\ ScanReturned /\ main.host = <<>> /\ main.devs # <<>>
  /\ \A i \in DOMAIN main.devs : ~ProductNamed(main.devs[i].name)
  /\ ~main.result

\* the outcomes of the Strategy-1 attempts on the left side: not found
\* twice, then connected and verified
RetryScript == <<"nf", "nf", "ok">>
IsPrefix(a, b) == Len(a) <= Len(b) /\ \A i \in DOMAIN a : a[i] = b[i]

Calls(t) ==
  IF t = 0
  THEN main'.pc \in {"cgL", "cgR"} /\ main'.pc # main.pc
  ELSE handlers'[t].pc = "cg" /\ handlers[t].pc # "cg"

\* C19: a call of _connect_glass(side) made while no address is stored for
\* the side has returned False by the end of the calling step: it is past the
\* attempt loop with no attempt counted, no failed attempt to sleep after, no
\* transport of its own, and the list of transports ever created has not
\* grown.
C19_NoAddressReturnsAtOnce ==
  [][\A t \in Tasks :
       LET f == IF t = 0 THEN main'.cg ELSE handlers'[t].cg
       IN (Calls(t) /\ Address(config', f.side) = NoAddr)
            => /\ f.at = "ret" /\ ~f.result
               /\ f.attempt = 0 /\ f.cl = 0 /\ f.log = <<>>
               /\ Len(transports') = Len(transports)]_vars

\* C19 witness: connect_to_glasses holds the False of a _connect_glass call
\* made for a side without an address.
C19_Witness ==
  /\ main.pc \in {"cgL", "cgR"}
  /\ Address(config, main.cg.side) = NoAddr
  /\ main.cg.at = "ret" /\ ~main.cg.result /\ main.cg.attempt = 0

\* how far a _connect_glass frame is: three stages an attempt, the return last
Rank(f) ==
  IF f.at = "ret" THEN 3 * config.reconnect_attempts
  ELSE 3 * f.attempt + (CASE f.at = "connect" -> 0
                          [] f.at = "fallback" -> 1
                          [] OTHER -> 2)

\* task t's _connect_glass call moves in this step
Moves(t) ==
  IF t = 0
  THEN main.pc \in {"cgL", "cgR"} /\ main'.pc = main.pc /\ main'.cg # main.cg
  ELSE handlers[t].pc = "cg" /\ handlers'[t].pc = "cg"
         /\ handlers'[t].cg # handlers[t].cg

\* task t's _connect_glass call has not returned yet
UnderWay(t) == InCG(t) /\ CG(t).at # "ret"

\* the run can give no further outcome to an open: the transports and the
\* failures of the run are used up
Exhausted == Len(transports) >= limits.clients /\ nFaults >= limits.faults

\* the attempts of a call, as far as the frame tells
AttemptsBounded(t) ==
  LET f == CG(t)
  IN /\ f.attempt < config.reconnect_attempts
     /\ (t = 0 => Len(f.log) \in {f.attempt, f.attempt + 1})
     /\ (f.at = "ret" /\ ~f.result) =>
          IF Address(config, f.side) = NoAddr /\ t = 0 THEN f.log = <<>>
          ELSE /\ f.attempt \in {0, config.reconnect_attempts - 1}
               /\ (t = 0 => Len(f.log) = config.reconnect_attempts)
     /\ (f.at = "ret" /\ t = 0 /\ \A k \in DOMAIN f.log : f.log[k] # "ok")
          => ~f.result

\* C20: a _connect_glass call makes at most reconnect_attempts attempts,
\* each step of the call takes it further (connect, then at most one fallback
\* open, then the verification's outcome, then the next attempt or the
\* return), no call stays under way for ever while the run can still give
\* its open an outcome, and a call with an address
\* whose attempts all failed returns False after exactly reconnect_attempts
\* attempts whatever the classes of the failures were.
C20_BoundedAttempts ==
  /\ [](\A t \in Tasks : InCG(t) => AttemptsBounded(t))
  /\ [][\A t \in Tasks : Moves(t) =>
          IF t = 0 THEN Rank(main'.cg) > Rank(main.cg)
          ELSE Rank(handlers'[t].cg) > Rank(handlers[t].cg)]_vars
  /\ \A t \in Tasks : []<>(~UnderWay(t) \/ Exhausted)

\* C20 witness: a call has returned False after FairAttempts attempts, of
\* which the first two failed in different ways.
C20_Witness ==
  /\ main.pc \in {"cgL", "cgR"}
  /\ main.cg.at = "ret" /\ ~main.cg.result
  /\ config.reconnect_attempts = FairAttempts
  /\ Len(main.cg.log) = FairAttempts
  /\ main.cg.log[1] = "nf" /\ main.cg.log[2] = "timeout"

\* C21: a call of reconnect() goes through disconnect() up to its return,
\* only then enters connect_to_glasses, enters it from nowhere else, and
\* ends with the return of that one connect_to_glasses, whose result (false
\* unless the state became Connected) is the call's: no step of the call
\* follows it.
C21_ReconnectOnce ==
  [][main.op = "reconnect" =>
       /\ (main'.pc = "connect" /\ main.pc # "connect") => main.pc = "d_ret"
       /\ (main.pc = "d_ret" /\ main' # main) =>
            main'.op = "reconnect" /\ main'.pc = "connect"
       /\ main.pc = "c_ret" =>
            (main.result => connection_state = "Connected")
       /\ (main.pc = "c_ret" /\ main' # main) => main' = MainIdle
       /\ main'.op # "reconnect" => main.pc = "c_ret"]_vars

\* C21 witness: the connect_to_glasses of a reconnect() has failed and the
\* call is about to return.
C21_Witness ==
  /\ main.op = "reconnect" /\ main.pc = "c_ret" /\ ~main.result
  /\ main.scanned

\* C22: no two tasks are at the same time inside a _connect_glass call for
\* the same side.
C22_OneAttemptPerSide ==
  \A t, u \in Tasks :
    (t # u /\ UnderWay(t) /\ UnderWay(u)) => CG(t).side # CG(u).side

\* the side's handle after the step
ClientAfter(side) == IF side = "left" THEN left_client' ELSE right_client'

\* connect_to_glasses is at Strategy 4 with exactly one side connected
OneSided == main.pc = "s4" /\ main.left_connected # main.right_connected

\* what Strategy 4 does from its test to the second round of calls, but for
\* the close of the connected side: the addresses are cleared in memory and
\* in the persisted copy, a successful scan is followed by a call for the
\* left and then for the right side, a failed scan by the evaluation, and
\* true is returned only with both sides connected
RescansBoth ==
  /\ (OneSided /\ main' # main) =>
       /\ config'.left_address = NoAddr /\ config'.right_address = NoAddr
       /\ saved'.left_address = NoAddr /\ saved'.right_address = NoAddr
       /\ main'.pc \in {"s4close", "scan"}
       /\ main'.pc = "scan" => main'.sctx = "s4"
  /\ (main.pc = "scan_ret" /\ main.sctx = "s4" /\ main' # main) =>
       IF main.result
       THEN main'.pc = "cgL" /\ main'.strategy = 4 /\ main'.cg.side = "left"
       ELSE main'.pc = "eval"
  /\ (main.pc = "cgL" /\ main.strategy = 4 /\ main'.pc # "cgL") =>
       main'.pc = "cgR" /\ main'.strategy = 4 /\ main'.cg.side = "right"
  /\ (main'.pc = "c_ret" /\ main'.result) =>
       main'.left_connected /\ main'.right_connected

\* C23: with exactly one side connected after Strategies 1-3,
\* connect_to_glasses clears both addresses, closes the connected side's
\* transport and drops its handle, then scans, calls _connect_glass for both
\* sides again only after a successful scan, and returns true only with both
\* sides connected.
C23_OneSidedRescans ==
  [][/\ RescansBoth
     /\ (main.pc = "s4close" /\ main' # main) =>
          /\ ~transports'[main.cg.cl].open
          /\ ClientAfter(main.cg.side) = 0
          /\ main'.pc = "scan" /\ main'.sctx = "s4"]_vars

\* the steps that begin Strategy 1, the pairing verification of Strategy 2
\* and the clearing of Strategy 3
BeginsStrategy1 == main.pc = "connect" /\ main'.pc = "cgL"
BeginsPairing == main.pc = "s2" /\ main'.pc = "verify"
BeginsClearing == main.pc = "s3" /\ main'.pc = "scan"

\* C24: Strategy 1 begins only with both addresses stored, and the pairing
\* verification and the Strategy-3 clearing begin only when neither side
\* holds an open transport.
C24_LayersAfterFullFailure ==
  [][/\ BeginsStrategy1 =>
          config'.left_address # NoAddr /\ config'.right_address # NoAddr
     /\ (BeginsPairing \/ BeginsClearing) =>
          ~SideOpen("left") /\ ~SideOpen("right")]_vars

\* C25: when the scan of Strategy 3 has returned false, the step that
\* follows leaves in memory and in the persisted copy the two addresses the
\* config held before Strategy 3 cleared them (old_left, old_right).
C25_Strategy3Restores ==
  [][(main.pc = "scan_ret" /\ main.sctx = "s3" /\ ~main.result /\ main' # main) =>
       /\ config'.left_address = main.old_left
       /\ config'.right_address = main.old_right
       /\ saved'.left_address = main.old_left
       /\ saved'.right_address = main.old_right]_vars

\* C26: when connect_to_glasses, called with both addresses stored, returns
\* false, both addresses are stored in memory and in the persisted copy.
C26_FalseKeepsAddresses ==
  (ConnectReturned /\ main.hadBoth /\ ~main.result) =>
    /\ config.left_address # NoAddr /\ config.right_address # NoAddr
    /\ saved.left_address # NoAddr /\ saved.right_address # NoAddr

\* the connection attempts task i has made since the callback started it
Attempts(i) == Len(handlers[i].log) + Len(handlers[i].cg.log)

\* C27: the task started by one firing of the disconnect callback makes at
\* most reconnect_attempts connection attempts.
C27_HandlerAttemptsBounded ==
  \A i \in Slots : Attempts(i) <= config.reconnect_attempts

\* task i, started by the callback, takes this step
HandlerStep(i) ==
  handlers[i].pc \in {"start", "cg", "sleep"} /\ handlers'[i] # handlers[i]

\* C28: a step of a _handle_disconnect task, the steps of its _connect_glass
\* calls included, changes neither the handle nor the stored address of the
\* other side, nor any transport of the other side.
C28_OtherSideUntouched ==
  [][\A i \in Slots :
       HandlerStep(i) =>
         LET other == Other(handlers[i].side)
         IN /\ ClientAfter(other) = Client(other)
            /\ Address(config', other) = Address(config, other)
            /\ Len(transports') >= Len(transports)
            /\ \A id \in 1..Len(transports) :
                 transports[id].side = other => transports'[id] = transports[id]
            /\ \A id \in (Len(transports) + 1)..Len(transports') :
                 transports'[id].side # other]_vars

\* C28 witness: a _connect_glass call of a task has returned to it while the
\* other side holds an open transport.
C28_Witness ==
  \E i \in Slots :
    /\ handlers[i].pc = "cg" /\ handlers[i].cg.at = "ret"
    /\ SideOpen(Other(handlers[i].side))

\* C29: a transport stored as a side's handle has, while it is open, the
\* disconnect callback registered.
C29_StoredHandleHasCallback ==
  \A side \in Sides : SideOpen(side) => transports[Client(side)].cb

\* C30: when connect_to_glasses returns true the monitor task exists and has
\* not left its loop, and it leaves its loop only while a disconnect() is
\* between setting the flag and the end of its wait for the task.
C30_MonitorKeepsPolling ==
  /\ []((ConnectReturned /\ main.result) => monitoring_task = "running")
  /\ [][(monitoring_task = "running" /\ monitoring_task' # "running") =>
          main.pc = "d_cancel"]_vars

\* a step of the monitor task: a pass of its loop, or the end of its loop
MonitorStep ==
  \/ monitor' # monitor
  \/ monitoring_task = "running" /\ monitoring_task' = "finished"

\* C31: a step of _monitor_connection_quality changes neither handle, no
\* transport, neither the config nor its persisted copy, nor the connection
\* state, and starts or moves no caller's call, no _connect_glass call and no
\* _handle_disconnect task.
C31_MonitorOnlyObserves ==
  [][MonitorStep =>
       UNCHANGED <<left_client, right_client, transports, config, saved,
                   connection_state, main, handlers, running, shutting_down>>]_vars

\* C31 witness: the monitor has counted a side whose client is not connected
\* while the state is Connected.
C31_Witness ==
  /\ monitor.error_count > 0 /\ monitor.last_error \in Sides
  /\ connection_state = "Connected"

\* the six bytes 0x25 0x06 0x00 s 0x04 s
SixBytes(s) == <<37, 6, 0, s, 4, s>>
SentTo(side) == heartbeat'.count[side] # heartbeat.count[side]

\* C32: every heartbeat frame that is sent is the six bytes
\* 0x25 0x06 0x00 seq 0x04 seq with seq in 0..255 and the same seq twice; the
\* left side is sent the round's frame before the right side, and the right
\* side is then sent the very frame the left side got.
C32_FrameAndOrder ==
  [][/\ SentTo("left") =>
          /\ heartbeat.seq \in 0..255
          /\ heartbeat'.frames["left"] = SixBytes(heartbeat.seq)
          /\ heartbeat.frames["right"] # SixBytes(heartbeat.seq)
     /\ SentTo("right") =>
          /\ ~SentTo("left")
          /\ heartbeat.frames["left"] = SixBytes(heartbeat.seq)
          /\ heartbeat'.frames["right"] = heartbeat.frames["left"]]_vars

\* C32 witness: a round whose counter wrapped to 0 has sent its frame to
\* both sides.
C32_Witness ==
  /\ heartbeat.pc = "sleep"
  /\ heartbeat.frames["left"] = SixBytes(0)
  /\ heartbeat.frames["right"] = SixBytes(0)

\* a send of the heartbeat raised
SendFailed ==
  /\ heartbeat.pc \in {"sendL", "sendR"}
  /\ ~SentTo("left") /\ ~SentTo("right")
  /\ heartbeat' # heartbeat

\* C33: a send that fails adds exactly one to the error counter, records
\* the error and takes the loop to its sleep(2), and nothing else changes the
\* counter; from that sleep the loop, whose handles are both present, goes on
\* to the first send of another round.
C33_FailedSendCountsAndContinues ==
  /\ [][/\ SendFailed =>
             /\ heartbeat'.error_count = heartbeat.error_count + 1
             /\ heartbeat'.last_error = "Heartbeat failed"
             /\ heartbeat'.pc = "error_sleep"
        /\ heartbeat'.error_count # heartbeat.error_count => SendFailed]_vars
  /\ (heartbeat.pc = "error_sleep" ~> heartbeat.pc = "sendL")

\* C33 witness: after a failed send was counted the loop is in the first
\* send of a later round.
C33_Witness ==
  /\ heartbeat.pc = "sendL"
  /\ heartbeat.error_count = 1 /\ heartbeat.last_error = "Heartbeat failed"
  /\ left_client # 0 /\ right_client # 0

\* the device matches the side's pattern of the host step (on the upper-cased
\* name) or of the active scan
HostMatches(side, d) ==
  LET u == Upper(d.name)
  IN IF side = "left" THEN Has(u, "_L_") \/ Has(u, "LEFT")
     ELSE Has(u, "_R_") \/ Has(u, "RIGHT")
ScanMatches(side, d) ==
  /\ IsG1(d)
  /\ IF side = "left" THEN Has(d.name, "_L_") \/ Has(d.name, "Left")
     ELSE Has(d.name, "_R_") \/ Has(d.name, "Right")
HostMatching(side) == SelectSeq(main.host, LAMBDA d : HostMatches(side, d))
ScanMatching(side) == SelectSeq(main.devs, LAMBDA d : ScanMatches(side, d))

\* C34: when scan_for_glasses returns, a side that host devices matched has
\* the address of the first of them in the order of the listing, and a side
\* that only discovered devices matched has the address of the first of those.
C34_FirstMatchKept ==
  (ScanReturned /\ main.sctx = "top") =>
    \A side \in Sides :
      /\ HostMatching(side) # <<>> =>
           Address(config, side) = HostMatching(side)[1].address
      /\ (HostMatching(side) = <<>> /\ ScanMatching(side) # <<>>) =>
           Address(config, side) = ScanMatching(side)[1].address

\* C40: whenever scan_for_glasses returns true, the stored left address and
\* the stored right address are different.
C40_AddressesDiffer ==
  (ScanReturned /\ main.result) => config.left_address # config.right_address

\* C35: a call of connect_to_glasses has called _connect_glass at most four
\* times for each side, scan_for_glasses at most twice and verify_pairing at
\* most once, and it does not stay under way for ever: it returns, unless
\* the run can give no further outcome to the open it is waiting for.
C35_ConnectBounded ==
  /\ [](main.op = "connect" =>
          /\ \A side \in Sides : main.calls[side] <= 4
          /\ main.calls["scan"] <= 2
          /\ main.calls["pairing"] <= 1)
  /\ []<>(main.op # "connect" \/ (Exhausted /\ UnderWay(0)))

\* C35 witness: connect_to_glasses returns after four calls of
\* _connect_glass for each side, two scans and one pairing verification.
C35_Witness ==
  /\ ConnectReturned /\ main.op = "connect"
  /\ \A side \in Sides : main.calls[side] = 4
  /\ main.calls["scan"] = 2 /\ main.calls["pairing"] = 1

\* disconnect() has returned to its caller, who has made no call since
AfterDisconnect == shutting_down /\ main.op = "idle"

\* C36: once disconnect() has returned, and as long as no call follows it,
\* no step opens a transport and no step sets a handle that was null.
C36_QuietAfterDisconnect ==
  [][AfterDisconnect =>
       /\ Len(transports') = Len(transports)
       /\ \A side \in Sides : Client(side) = 0 => ClientAfter(side) = 0]_vars

\* transport i's callback has created its _handle_disconnect task in this step
TaskStarted(i) == handlers'[i].pc = "start" /\ handlers'[i] # handlers[i]

\* C37: a _handle_disconnect task is started only by an unsolicited loss of
\* the link, never by a close the core itself awaits (after a failed
\* verification, in Strategy 4, in the cleanup of the evaluation); and when
\* connect_to_glasses returns false, no such task is waiting to run or
\* inside its reconnect loop.
C37_CoreCloseStartsNoTask ==
  /\ [][\A i \in Slots : TaskStarted(i) => handlers'[i].unsolicited]_vars
  /\ []((ConnectReturned /\ ~main.result) =>
          \A i \in Slots : handlers[i].pc \in {NoHandler.pc, HandlerDone.pc})

\* C38: when a _connect_glass(side) call of connect_to_glasses returns
\* False, no transport of that side is open, and the side's handle is not an
\* open transport.
C38_FalseLeavesNothingOpen ==
  (InCG(0) /\ main.cg.at = "ret" /\ ~main.cg.result) =>
    /\ \A id \in 1..Len(transports) :
         transports[id].side = main.cg.side => ~transports[id].open
    /\ ~IsOpen(Client(main.cg.side))

\* C39: every iteration of _heartbeat_loop reaches a send or a sleep: the
\* loop is never in an iteration that goes back to the head of `while True`
\* without having awaited anything.
C39_EveryRoundYields == heartbeat.pc # "spin"

====
